---- MODULE Spec2Model ----
(***************************************************************************)
(* A model of the AIDA CoNLL-YAGO to Wikidata converter (src/src/main.rs). *)
(* A string is a sequence of Unicode scalar values, each written as a      *)
(* one-element TLA+ string ("A") or, outside ASCII, by its code point      *)
(* ("U+0301").  Option<T> is a sequence: <<>> is None, <<x>> is Some(x).   *)
(* A u32 read from the input is held as its decimal digits without leading *)
(* zeros (<<"0">> for zero), which covers the whole range of u32.          *)
(***************************************************************************)
EXTENDS Integers, Sequences, FiniteSets, TLC

VARIABLES
    pc,              \* position of main
    input_conll,     \* the lines of the file at --input-conll
    pos,             \* lines of input_conll consumed by parse_conll's loop
    train,           \* parse_conll: Vec<TokenRecord> of the train split
    validation,      \* parse_conll: Vec<TokenRecord> of the validation split
    test,            \* parse_conll: Vec<TokenRecord> of the test split
    document_id,     \* parse_conll: current document id
    document_split,  \* parse_conll: current Split
    titles,          \* parse_conll: HashSet of candidate titles
    input_wiki2qid,  \* the MappingRecords of the file at --input-wiki2qid
    rpos,            \* records of input_wiki2qid consumed by main's loop
    mapping,         \* main: HashMap title -> (pageid, qid)
    train_out,       \* main: generate_dataset(train, &mapping)
    validation_out,  \* main: generate_dataset(validation, &mapping)
    test_out,        \* main: generate_dataset(test, &mapping)
    writing,         \* which write_dataset call of main is running (1..3)
    files,           \* the output directory: path -> state of the file there
    panic            \* where the run panicked ("" while it has not)

vars == <<pc, input_conll, pos, train, validation, test, document_id,
          document_split, titles, input_wiki2qid, rpos, mapping, train_out,
          validation_out, test_out, writing, files, panic>>

\* ---------------------------------------------------------------- bounds
\* Longest corpus (in lines) and longest mapping stream (in records).
MaxLines == 3
MaxRecords == 3

BoundedSeq(S, n) == UNION {[1..k -> S] : k \in 0..n}

\* ------------------------------------------------------------ characters
TAB == "\t"
BACKSLASH == "\\"
SPACE == " "
COMBINING_ACUTE == "U+0301"
ARABIC_INDIC_THREE == "U+0663"
KAWI_ZERO == "U+11F50"
AsciiDigits == {"0", "1", "2", "3", "4", "5", "6", "7", "8", "9"}

\* The ASCII characters that compose with a following U+0301, and what
\* each composes to (same position).
AcuteBases ==
    <<"A", "C", "E", "G", "I", "K", "L", "M", "N", "O", "P", "R", "S", "U",
     "W", "Y", "Z", "a", "c", "e", "g", "i", "k", "l", "m", "n", "o", "p",
     "r", "s", "u", "w", "y", "z">>
AcuteComposed ==
    <<"U+00C1", "U+0106", "U+00C9", "U+01F4", "U+00CD", "U+1E30", "U+0139",
     "U+1E3E", "U+0143", "U+00D3", "U+1E54", "U+0154", "U+015A", "U+00DA",
     "U+1E82", "U+00DD", "U+0179", "U+00E1", "U+0107", "U+00E9", "U+01F5",
     "U+00ED", "U+1E31", "U+013A", "U+1E3F", "U+0144", "U+00F3", "U+1E55",
     "U+0155", "U+015B", "U+00FA", "U+1E83", "U+00FD", "U+017A">>

\* The decimal digits (general category Nd, Unicode 16.0.0) outside ASCII:
\* what \d of the regex crate matches besides 0-9.
NonAsciiDigits ==
    {"U+0660", "U+0661", "U+0662", "U+0663", "U+0664", "U+0665", "U+0666",
     "U+0667", "U+0668", "U+0669", "U+06F0", "U+06F1", "U+06F2", "U+06F3",
     "U+06F4", "U+06F5", "U+06F6", "U+06F7", "U+06F8", "U+06F9", "U+07C0",
     "U+07C1", "U+07C2", "U+07C3", "U+07C4", "U+07C5", "U+07C6", "U+07C7",
     "U+07C8", "U+07C9", "U+0966", "U+0967", "U+0968", "U+0969", "U+096A",
     "U+096B", "U+096C", "U+096D", "U+096E", "U+096F", "U+09E6", "U+09E7",
     "U+09E8", "U+09E9", "U+09EA", "U+09EB", "U+09EC", "U+09ED", "U+09EE",
     "U+09EF", "U+0A66", "U+0A67", "U+0A68", "U+0A69", "U+0A6A", "U+0A6B",
     "U+0A6C", "U+0A6D", "U+0A6E", "U+0A6F", "U+0AE6", "U+0AE7", "U+0AE8",
     "U+0AE9", "U+0AEA", "U+0AEB", "U+0AEC", "U+0AED", "U+0AEE", "U+0AEF",
     "U+0B66", "U+0B67", "U+0B68", "U+0B69", "U+0B6A", "U+0B6B", "U+0B6C",
     "U+0B6D", "U+0B6E", "U+0B6F", "U+0BE6", "U+0BE7", "U+0BE8", "U+0BE9",
     "U+0BEA", "U+0BEB", "U+0BEC", "U+0BED", "U+0BEE", "U+0BEF", "U+0C66",
     "U+0C67", "U+0C68", "U+0C69", "U+0C6A", "U+0C6B", "U+0C6C", "U+0C6D",
     "U+0C6E", "U+0C6F", "U+0CE6", "U+0CE7", "U+0CE8", "U+0CE9", "U+0CEA",
     "U+0CEB", "U+0CEC", "U+0CED", "U+0CEE", "U+0CEF", "U+0D66", "U+0D67",
     "U+0D68", "U+0D69", "U+0D6A", "U+0D6B", "U+0D6C", "U+0D6D", "U+0D6E",
     "U+0D6F", "U+0DE6", "U+0DE7", "U+0DE8", "U+0DE9", "U+0DEA", "U+0DEB",
     "U+0DEC", "U+0DED", "U+0DEE", "U+0DEF", "U+0E50", "U+0E51", "U+0E52",
     "U+0E53", "U+0E54", "U+0E55", "U+0E56", "U+0E57", "U+0E58", "U+0E59",
     "U+0ED0", "U+0ED1", "U+0ED2", "U+0ED3", "U+0ED4", "U+0ED5", "U+0ED6",
     "U+0ED7", "U+0ED8", "U+0ED9", "U+0F20", "U+0F21", "U+0F22", "U+0F23",
     "U+0F24", "U+0F25", "U+0F26", "U+0F27", "U+0F28", "U+0F29", "U+1040",
     "U+1041", "U+1042", "U+1043", "U+1044", "U+1045", "U+1046", "U+1047",
     "U+1048", "U+1049", "U+1090", "U+1091", "U+1092", "U+1093", "U+1094",
     "U+1095", "U+1096", "U+1097", "U+1098", "U+1099", "U+17E0", "U+17E1",
     "U+17E2", "U+17E3", "U+17E4", "U+17E5", "U+17E6", "U+17E7", "U+17E8",
     "U+17E9", "U+1810", "U+1811", "U+1812", "U+1813", "U+1814", "U+1815",
     "U+1816", "U+1817", "U+1818", "U+1819", "U+1946", "U+1947", "U+1948",
     "U+1949", "U+194A", "U+194B", "U+194C", "U+194D", "U+194E", "U+194F",
     "U+19D0", "U+19D1", "U+19D2", "U+19D3", "U+19D4", "U+19D5", "U+19D6",
     "U+19D7", "U+19D8", "U+19D9", "U+1A80", "U+1A81", "U+1A82", "U+1A83",
     "U+1A84", "U+1A85", "U+1A86", "U+1A87", "U+1A88", "U+1A89", "U+1A90",
     "U+1A91", "U+1A92", "U+1A93", "U+1A94", "U+1A95", "U+1A96", "U+1A97",
     "U+1A98", "U+1A99", "U+1B50", "U+1B51", "U+1B52", "U+1B53", "U+1B54",
     "U+1B55", "U+1B56", "U+1B57", "U+1B58", "U+1B59", "U+1BB0", "U+1BB1",
     "U+1BB2", "U+1BB3", "U+1BB4", "U+1BB5", "U+1BB6", "U+1BB7", "U+1BB8",
     "U+1BB9", "U+1C40", "U+1C41", "U+1C42", "U+1C43", "U+1C44", "U+1C45",
     "U+1C46", "U+1C47", "U+1C48", "U+1C49", "U+1C50", "U+1C51", "U+1C52",
     "U+1C53", "U+1C54", "U+1C55", "U+1C56", "U+1C57", "U+1C58", "U+1C59",
     "U+A620", "U+A621", "U+A622", "U+A623", "U+A624", "U+A625", "U+A626",
     "U+A627", "U+A628", "U+A629", "U+A8D0", "U+A8D1", "U+A8D2", "U+A8D3",
     "U+A8D4", "U+A8D5", "U+A8D6", "U+A8D7", "U+A8D8", "U+A8D9", "U+A900",
     "U+A901", "U+A902", "U+A903", "U+A904", "U+A905", "U+A906", "U+A907",
     "U+A908", "U+A909", "U+A9D0", "U+A9D1", "U+A9D2", "U+A9D3", "U+A9D4",
     "U+A9D5", "U+A9D6", "U+A9D7", "U+A9D8", "U+A9D9", "U+A9F0", "U+A9F1",
     "U+A9F2", "U+A9F3", "U+A9F4", "U+A9F5", "U+A9F6", "U+A9F7", "U+A9F8",
     "U+A9F9", "U+AA50", "U+AA51", "U+AA52", "U+AA53", "U+AA54", "U+AA55",
     "U+AA56", "U+AA57", "U+AA58", "U+AA59", "U+ABF0", "U+ABF1", "U+ABF2",
     "U+ABF3", "U+ABF4", "U+ABF5", "U+ABF6", "U+ABF7", "U+ABF8", "U+ABF9",
     "U+FF10", "U+FF11", "U+FF12", "U+FF13", "U+FF14", "U+FF15", "U+FF16",
     "U+FF17", "U+FF18", "U+FF19", "U+104A0", "U+104A1", "U+104A2",
     "U+104A3", "U+104A4", "U+104A5", "U+104A6", "U+104A7", "U+104A8",
     "U+104A9", "U+10D30", "U+10D31", "U+10D32", "U+10D33", "U+10D34",
     "U+10D35", "U+10D36", "U+10D37", "U+10D38", "U+10D39", "U+10D40",
     "U+10D41", "U+10D42", "U+10D43", "U+10D44", "U+10D45", "U+10D46",
     "U+10D47", "U+10D48", "U+10D49", "U+11066", "U+11067", "U+11068",
     "U+11069", "U+1106A", "U+1106B", "U+1106C", "U+1106D", "U+1106E",
     "U+1106F", "U+110F0", "U+110F1", "U+110F2", "U+110F3", "U+110F4",
     "U+110F5", "U+110F6", "U+110F7", "U+110F8", "U+110F9", "U+11136",
     "U+11137", "U+11138", "U+11139", "U+1113A", "U+1113B", "U+1113C",
     "U+1113D", "U+1113E", "U+1113F", "U+111D0", "U+111D1", "U+111D2",
     "U+111D3", "U+111D4", "U+111D5", "U+111D6", "U+111D7", "U+111D8",
     "U+111D9", "U+112F0", "U+112F1", "U+112F2", "U+112F3", "U+112F4",
     "U+112F5", "U+112F6", "U+112F7", "U+112F8", "U+112F9", "U+11450",
     "U+11451", "U+11452", "U+11453", "U+11454", "U+11455", "U+11456",
     "U+11457", "U+11458", "U+11459", "U+114D0", "U+114D1", "U+114D2",
     "U+114D3", "U+114D4", "U+114D5", "U+114D6", "U+114D7", "U+114D8",
     "U+114D9", "U+11650", "U+11651", "U+11652", "U+11653", "U+11654",
     "U+11655", "U+11656", "U+11657", "U+11658", "U+11659", "U+116C0",
     "U+116C1", "U+116C2", "U+116C3", "U+116C4", "U+116C5", "U+116C6",
     "U+116C7", "U+116C8", "U+116C9", "U+116D0", "U+116D1", "U+116D2",
     "U+116D3", "U+116D4", "U+116D5", "U+116D6", "U+116D7", "U+116D8",
     "U+116D9", "U+116DA", "U+116DB", "U+116DC", "U+116DD", "U+116DE",
     "U+116DF", "U+116E0", "U+116E1", "U+116E2", "U+116E3", "U+11730",
     "U+11731", "U+11732", "U+11733", "U+11734", "U+11735", "U+11736",
     "U+11737", "U+11738", "U+11739", "U+118E0", "U+118E1", "U+118E2",
     "U+118E3", "U+118E4", "U+118E5", "U+118E6", "U+118E7", "U+118E8",
     "U+118E9", "U+11950", "U+11951", "U+11952", "U+11953", "U+11954",
     "U+11955", "U+11956", "U+11957", "U+11958", "U+11959", "U+11BF0",
     "U+11BF1", "U+11BF2", "U+11BF3", "U+11BF4", "U+11BF5", "U+11BF6",
     "U+11BF7", "U+11BF8", "U+11BF9", "U+11C50", "U+11C51", "U+11C52",
     "U+11C53", "U+11C54", "U+11C55", "U+11C56", "U+11C57", "U+11C58",
     "U+11C59", "U+11D50", "U+11D51", "U+11D52", "U+11D53", "U+11D54",
     "U+11D55", "U+11D56", "U+11D57", "U+11D58", "U+11D59", "U+11DA0",
     "U+11DA1", "U+11DA2", "U+11DA3", "U+11DA4", "U+11DA5", "U+11DA6",
     "U+11DA7", "U+11DA8", "U+11DA9", "U+11F50", "U+11F51", "U+11F52",
     "U+11F53", "U+11F54", "U+11F55", "U+11F56", "U+11F57", "U+11F58",
     "U+11F59", "U+16130", "U+16131", "U+16132", "U+16133", "U+16134",
     "U+16135", "U+16136", "U+16137", "U+16138", "U+16139", "U+16A60",
     "U+16A61", "U+16A62", "U+16A63", "U+16A64", "U+16A65", "U+16A66",
     "U+16A67", "U+16A68", "U+16A69", "U+16AC0", "U+16AC1", "U+16AC2",
     "U+16AC3", "U+16AC4", "U+16AC5", "U+16AC6", "U+16AC7", "U+16AC8",
     "U+16AC9", "U+16B50", "U+16B51", "U+16B52", "U+16B53", "U+16B54",
     "U+16B55", "U+16B56", "U+16B57", "U+16B58", "U+16B59", "U+16D70",
     "U+16D71", "U+16D72", "U+16D73", "U+16D74", "U+16D75", "U+16D76",
     "U+16D77", "U+16D78", "U+16D79", "U+1CCF0", "U+1CCF1", "U+1CCF2",
     "U+1CCF3", "U+1CCF4", "U+1CCF5", "U+1CCF6", "U+1CCF7", "U+1CCF8",
     "U+1CCF9", "U+1D7CE", "U+1D7CF", "U+1D7D0", "U+1D7D1", "U+1D7D2",
     "U+1D7D3", "U+1D7D4", "U+1D7D5", "U+1D7D6", "U+1D7D7", "U+1D7D8",
     "U+1D7D9", "U+1D7DA", "U+1D7DB", "U+1D7DC", "U+1D7DD", "U+1D7DE",
     "U+1D7DF", "U+1D7E0", "U+1D7E1", "U+1D7E2", "U+1D7E3", "U+1D7E4",
     "U+1D7E5", "U+1D7E6", "U+1D7E7", "U+1D7E8", "U+1D7E9", "U+1D7EA",
     "U+1D7EB", "U+1D7EC", "U+1D7ED", "U+1D7EE", "U+1D7EF", "U+1D7F0",
     "U+1D7F1", "U+1D7F2", "U+1D7F3", "U+1D7F4", "U+1D7F5", "U+1D7F6",
     "U+1D7F7", "U+1D7F8", "U+1D7F9", "U+1D7FA", "U+1D7FB", "U+1D7FC",
     "U+1D7FD", "U+1D7FE", "U+1D7FF", "U+1E140", "U+1E141", "U+1E142",
     "U+1E143", "U+1E144", "U+1E145", "U+1E146", "U+1E147", "U+1E148",
     "U+1E149", "U+1E2F0", "U+1E2F1", "U+1E2F2", "U+1E2F3", "U+1E2F4",
     "U+1E2F5", "U+1E2F6", "U+1E2F7", "U+1E2F8", "U+1E2F9", "U+1E4F0",
     "U+1E4F1", "U+1E4F2", "U+1E4F3", "U+1E4F4", "U+1E4F5", "U+1E4F6",
     "U+1E4F7", "U+1E4F8", "U+1E4F9", "U+1E5F1", "U+1E5F2", "U+1E5F3",
     "U+1E5F4", "U+1E5F5", "U+1E5F6", "U+1E5F7", "U+1E5F8", "U+1E5F9",
     "U+1E5FA", "U+1E950", "U+1E951", "U+1E952", "U+1E953", "U+1E954",
     "U+1E955", "U+1E956", "U+1E957", "U+1E958", "U+1E959", "U+1FBF0",
     "U+1FBF1", "U+1FBF2", "U+1FBF3", "U+1FBF4", "U+1FBF5", "U+1FBF6",
     "U+1FBF7", "U+1FBF8", "U+1FBF9"}

\* A line the reader cannot deliver: lines() yields Err (an I/O error, or
\* bytes that are not UTF-8).
LineUnreadable ==
    <<"Err(InvalidData)">>

\* ------------------------------------------------------- the input lines
LineBlank ==
    <<>>
LineA ==
    <<"A", TAB, "_", TAB, "_", TAB, "_">>
LineEmptyToken ==
    <<TAB, "_", TAB, "_", TAB, "_">>
LineB ==
    <<"B", TAB, "_", TAB, "_", TAB, "_", TAB, "h", "t", "t", "p", ":", "/", "/", "e", "n", ".", "w", "i", "k", "i", "p", "e", "d", "i", "a", ".", "o", "r", "g", "/", "w", "i", "k", "i", "/", "T">>
LineSuperman ==
    <<"S", TAB, "_", TAB, "_", TAB, "_", TAB, "h", "t", "t", "p", ":", "/", "/", "e", "n", ".", "w", "i", "k", "i", "p", "e", "d", "i", "a", ".", "o", "r", "g", "/", "w", "i", "k", "i", "/", "S", "u", "p", "e", "r", "m", "a", "n", "_", "(", "f", "i", "l", "m", ")">>
LineWord ==
    <<"w">>
LineAccent ==
    <<"e", COMBINING_ACUTE, TAB, "_", TAB, "_", TAB, "_">>
LineDoc1 ==
    <<"-", "D", "O", "C", "S", "T", "A", "R", "T", "-", " ", "(", "1", " ", "N", ")">>
LineDoc2a ==
    <<"-", "D", "O", "C", "S", "T", "A", "R", "T", "-", " ", "(", "2", "t", "e", "s", "t", "a", " ", "N", ")">>
LineDoc3b ==
    <<"-", "D", "O", "C", "S", "T", "A", "R", "T", "-", " ", "(", "3", "t", "e", "s", "t", "b", " ", "N", ")">>
LineDocSpaced ==
    <<"-", "D", "O", "C", "S", "T", "A", "R", "T", "-", " ", "(", "2", " ", "t", "e", "s", "t", "a", ")">>
LineDocEscaped ==
    <<"-", "D", "O", "C", "S", "T", "A", "R", "T", "-", " ", "(", "4", "t", "e", "s", "t", "b", " ", "a", BACKSLASH, ")", "b", ")">>
LineDocInner ==
    <<"x", "-", "D", "O", "C", "S", "T", "A", "R", "T", "-", " ", "(", "5", "t", "e", "s", "t", "a", " ", "N", ")", "y">>
LineDocOpen ==
    <<"-", "D", "O", "C", "S", "T", "A", "R", "T", "-", " ", "(", "6", "t", "e", "s", "t", "a", " ", "N">>
LineDocTabbed ==
    <<"-", "D", "O", "C", "S", "T", "A", "R", "T", "-", " ", "(", "7", "t", "e", "s", "t", "a", " ", "N", ")", TAB, "_">>
LineDocOverflow ==
    <<"-", "D", "O", "C", "S", "T", "A", "R", "T", "-", " ", "(", "4", "2", "9", "4", "9", "6", "7", "2", "9", "6", " ", "N", ")">>
LineDocMax ==
    <<"-", "D", "O", "C", "S", "T", "A", "R", "T", "-", " ", "(", "4", "2", "9", "4", "9", "6", "7", "2", "9", "5", "t", "e", "s", "t", "b", " ", "N", ")">>
LineDocKawi ==
    <<"-", "D", "O", "C", "S", "T", "A", "R", "T", "-", " ", "(", "1", KAWI_ZERO, "t", "e", "s", "t", "a", " ", "N", ")">>
LineDocArabic ==
    <<"-", "D", "O", "C", "S", "T", "A", "R", "T", "-", " ", "(", ARABIC_INDIC_THREE, " ", "N", ")">>
LineScenarioB ==
    <<"B", TAB, "_", TAB, "_", TAB, "_", TAB, "S", "O", "M", "E", "_", "P", "R", "E", "F", "I", "X", "_", "2", "9", "_", "C", "H", "A", "R", "S", "_", "L", "O", "N", "G", "T", "i", "t", "l", "e">>
LineC ==
    <<"C", TAB, "_", TAB, "_", TAB, "_">>

\* The titles of the corrections main inserts before it reads the stream.
Title0 ==
    <<"I", "n", "t", "e", "r", "n", "a", "t", "i", "o", "n", "a", "l", "_", "c", "r", "i", "c", "k", "e", "t", "e", "r", "s", "_", "o", "f", "_", "S", "o", "u", "t", "h", "_", "A", "f", "r", "i", "c", "a", "n", "_", "o", "r", "i", "g", "i", "n">>
Title1 ==
    <<"I", "n", "d", "e", "p", "e", "n", "d", "e", "n", "c", "e", "_", "D", "a", "y", "_", "(", "f", "i", "l", "m", ")">>
Title2 ==
    <<"C", "a", "m", "e", "l", "o", "t", ",", "_", "C", "h", "e", "s", "a", "p", "e", "a", "k", "e", ",", "_", "V", "i", "r", "g", "i", "n", "i", "a">>
Title3 ==
    <<"S", "B", "C", "_", "C", "o", "m", "m", "u", "n", "i", "c", "a", "t", "i", "o", "n", "s">>
Title4 ==
    <<"S", "u", "p", "e", "r", "m", "a", "n", "_", "(", "f", "i", "l", "m", ")">>
Title5 ==
    <<"R", "a", "b", "o", "b", "a", "n", "k", "_", "(", "c", "y", "c", "l", "i", "n", "g", "_", "t", "e", "a", "m", ")">>
Title6 ==
    <<"U", ".", "_", "C", "h", "a", "n", "d", "a", "n", "a">>
Title7 ==
    <<"L", "P", "G", "A", "_", "C", "h", "a", "m", "p", "i", "o", "n", "s", "h", "i", "p">>
Title8 ==
    <<"H", "a", "p", "o", "e", "l", "_", "B", "e", "'", "e", "r", "_", "S", "h", "e", "v", "a", "_", "A", ".", "F", ".", "C", ".">>

\* --------------------------------------------------- string operations
\* str::split: the fields between the separators (one field when none).
RECURSIVE split(_, _)
split(s, sep) ==
    IF \A i \in 1..Len(s) : s[i] # sep
    THEN <<s>>
    ELSE LET i == CHOOSE k \in 1..Len(s) :
                      s[k] = sep /\ \A j \in 1..(k - 1) : s[j] # sep
         IN  <<SubSeq(s, 1, i - 1)>> \o split(SubSeq(s, i + 1, Len(s)), sep)

\* skip with the count off by one: the last prefix character is kept.
skip_one_less(s, n) ==
    IF n - 1 >= Len(s) THEN <<>> ELSE SubSeq(s, n, Len(s))

\* Iterator::skip(n) on chars().
skip(s, n) ==
    IF n >= Len(s) THEN <<>> ELSE SubSeq(s, n + 1, Len(s))

\* Canonical composition, on strings of ASCII characters, U+0301, decimal
\* digits and the characters of AcuteComposed: a character of AcuteBases
\* followed by U+0301 composes, nothing else does.
RECURSIVE nfc(_)
nfc(s) ==
    IF Len(s) < 2
    THEN s
    ELSE IF s[2] = COMBINING_ACUTE /\ \E i \in 1..Len(AcuteBases) : AcuteBases[i] = s[1]
         THEN LET i == CHOOSE k \in 1..Len(AcuteBases) : AcuteBases[k] = s[1]
              IN  nfc(<<AcuteComposed[i]>> \o SubSeq(s, 3, Len(s)))
         ELSE <<s[1]>> \o nfc(Tail(s))

\* [String]::join(sep).
RECURSIVE join(_, _)
join(strs, sep) ==
    IF strs = <<>> THEN <<>>
    ELSE IF Len(strs) = 1 THEN strs[1]
    ELSE strs[1] \o sep \o join(Tail(strs), sep)

\* ----------------------------------------------- the document boundary
\* -DOCSTART- \(([\d]+)(testa|testb)? [^\)\\]*(?:\\.[^\)\\]*)*\)
DocstartLiteral ==
    <<"-", "D", "O", "C", "S", "T", "A", "R", "T", "-", " ", "(">>
Testa ==
    <<"t", "e", "s", "t", "a">>
Testb ==
    <<"t", "e", "s", "t", "b">>

HasAt(s, i, lit) ==
    /\ i + Len(lit) - 1 <= Len(s)
    /\ SubSeq(s, i, i + Len(lit) - 1) = lit

\* \d of the regex crate is Unicode-aware: any decimal digit (Nd).
IsDigit(c) ==
    c \in AsciiDigits \/ c \in NonAsciiDigits

\* First position at or after i that holds no digit.
DigitsEnd(s, i) ==
    CHOOSE e \in i..(Len(s) + 1) :
        /\ \A j \in i..(e - 1) : IsDigit(s[j])
        /\ e = Len(s) + 1 \/ ~IsDigit(s[e])

\* [^\)\\]*(?:\\.[^\)\\]*)*\) from position i: an unescaped ")" is reached.
RECURSIVE TailMatches(_, _)
TailMatches(s, i) ==
    IF i > Len(s) THEN FALSE
    ELSE IF s[i] = ")" THEN TRUE
    ELSE IF s[i] = BACKSLASH THEN i + 1 <= Len(s) /\ TailMatches(s, i + 2)
    ELSE TailMatches(s, i + 1)

\* The optional group (testa|testb)? after the digits ending before e.
MarkerAt(s, e) ==
    IF HasAt(s, e, Testa) THEN Testa
    ELSE IF HasAt(s, e, Testb) THEN Testb
    ELSE <<>>

\* The pattern matches with its first character at position i.
MatchesAt(s, i) ==
    /\ HasAt(s, i, DocstartLiteral)
    /\ LET d == i + Len(DocstartLiteral)
           e == DigitsEnd(s, d)
           a == e + Len(MarkerAt(s, e))
       IN  /\ e > d
           /\ a <= Len(s)
           /\ s[a] = SPACE
           /\ TailMatches(s, a + 1)

\* regex_captures!: the leftmost match anywhere in s, with its two groups
\* (split is <<>> when the optional group did not take part).
regex_captures(s) ==
    IF \E i \in 1..Len(s) : MatchesAt(s, i)
    THEN LET i == CHOOSE k \in 1..Len(s) :
                      MatchesAt(s, k) /\ \A j \in 1..(k - 1) : ~MatchesAt(s, j)
             d == i + Len(DocstartLiteral)
             e == DigitsEnd(s, d)
         IN  [matched |-> TRUE, id |-> SubSeq(s, d, e - 1), split |-> MarkerAt(s, e)]
    ELSE [matched |-> FALSE, id |-> <<>>, split |-> <<>>]

\* str::parse::<u32>: an optional "+", then ASCII digits only, at most
\* u32::MAX.  The value is the digits without leading zeros.
U32MaxDigits ==
    <<"4", "2", "9", "4", "9", "6", "7", "2", "9", "5">>

DigitValue(c) ==
    CHOOSE v \in 0..9 : <<"0", "1", "2", "3", "4", "5", "6", "7", "8", "9">>[v + 1] = c

RECURSIVE StripZeros(_)
StripZeros(ds) ==
    IF ds # <<>> /\ ds[1] = "0" THEN StripZeros(Tail(ds)) ELSE ds

\* a <= b for digit strings of the same length.
RECURSIVE DigitsLeq(_, _)
DigitsLeq(a, b) ==
    IF a = <<>> THEN TRUE
    ELSE IF DigitValue(a[1]) # DigitValue(b[1]) THEN DigitValue(a[1]) < DigitValue(b[1])
    ELSE DigitsLeq(Tail(a), Tail(b))

parse_u32(src) ==
    LET ds == IF src # <<>> /\ src[1] = "+" THEN Tail(src) ELSE src
        z == StripZeros(ds)
        ok == /\ ds # <<>>
              /\ \A i \in 1..Len(ds) : ds[i] \in AsciiDigits
              /\ \/ Len(z) < Len(U32MaxDigits)
                 \/ Len(z) = Len(U32MaxDigits) /\ DigitsLeq(z, U32MaxDigits)
    IN  [ok |-> ok, value |-> IF ok /\ z # <<>> THEN z ELSE <<"0">>]

\* ------------------------------------------------------------ parse_conll
OutOfDistribution ==
    [kind |-> "OutOfDistribution", title |-> <<>>]
InDistribution(title) ==
    [kind |-> "InDistribution", title |-> title]
None ==
    [kind |-> "None", title |-> <<>>]

\* The fixed length of the URL prefix that precedes a title in field 4.
TitlePrefixLen == 29

\* The match arms with the two markers exchanged.
split_of_marker_swapped(marker) ==
    IF marker = Testa THEN "Test"
    ELSE IF marker = Testb THEN "Validation"
    ELSE "Train"

\* The split a boundary line selects, from its second capture group.
split_of_marker(marker) ==
    IF marker = Testa THEN "Validation"
    ELSE IF marker = Testb THEN "Test"
    ELSE "Train"

\* The entity of a token line, from the number of its fields.
entity_of(fields) ==
    IF Len(fields) = 4 THEN OutOfDistribution
    ELSE IF Len(fields) > 4 THEN InDistribution(nfc(skip(fields[5], TitlePrefixLen)))
    ELSE None

\* The line is a document boundary: one field, and the pattern matches.
is_boundary(line) ==
    /\ Len(line) # 0
    /\ Len(split(line, TAB)) = 1
    /\ regex_captures(split(line, TAB)[1]).matched

\* The TokenRecord a token line pushes while document_id is doc.
token_record(line, doc) ==
    LET fields == split(line, TAB)
    IN  [document_id |-> doc, token |-> nfc(fields[1]), entity |-> entity_of(fields)]

\* File::open(path).unwrap(): the run aborts when the corpus cannot be opened.
OpenConll ==
    /\ pc = "open_conll"
    /\ \E ok \in BOOLEAN :
           IF ok
           THEN pc' = "parse" /\ UNCHANGED panic
           ELSE pc' = "aborted" /\ panic' = "File::open(input_conll)"
    /\ UNCHANGED <<input_conll, pos, train, validation, test, document_id,
                   document_split, titles, input_wiki2qid, rpos, mapping,
                   train_out, validation_out, test_out, writing, files>>

\* One iteration of the loop over the lines.
ParseLine ==
    /\ pc = "parse"
    /\ pos < Len(input_conll)
    /\ LET line == input_conll[pos + 1]
           cap == regex_captures(split(line, TAB)[1])
           id == parse_u32(cap.id)
           rec == token_record(line, document_id)
       IN  IF line = LineUnreadable
           THEN /\ pc' = "aborted"
                /\ panic' = "line.unwrap()"
                /\ UNCHANGED <<pos, train, validation, test, document_id,
                               document_split, titles>>
           ELSE /\ pos' = pos + 1
                /\ IF Len(line) = 0
                   THEN UNCHANGED <<pc, train, validation, test, document_id,
                                    document_split, titles, panic>>
                   ELSE IF is_boundary(line)
                   THEN IF id.ok
                        THEN /\ document_id' = id.value
                             /\ document_split' = split_of_marker(cap.split)
                             /\ UNCHANGED <<pc, train, validation, test, titles,
                                            panic>>
                        ELSE /\ pc' = "aborted"
                             /\ panic' = "id.parse::<u32>()"
                             /\ UNCHANGED <<train, validation, test, document_id,
                                            document_split, titles>>
                   ELSE /\ train' = IF document_split = "Train"
                                    THEN Append(train, rec) ELSE train
                        /\ validation' = IF document_split = "Validation"
                                         THEN Append(validation, rec)
                                         ELSE validation
                        /\ test' = IF document_split = "Test"
                                   THEN Append(test, rec) ELSE test
                        /\ titles' = IF rec.entity.kind = "InDistribution"
                                     THEN titles \cup {rec.entity.title}
                                     ELSE titles
                        /\ UNCHANGED <<pc, document_id, document_split, panic>>
    /\ UNCHANGED <<input_conll, input_wiki2qid, rpos, mapping, train_out,
                   validation_out, test_out, writing, files>>

\* The loop ends; parse_conll returns the three splits and the titles.
ParseReturn ==
    /\ pc = "parse"
    /\ pos = Len(input_conll)
    /\ pc' = "corrections"
    /\ UNCHANGED <<input_conll, pos, train, validation, test, document_id,
                   document_split, titles, input_wiki2qid, rpos, mapping,
                   train_out, validation_out, test_out, writing, files, panic>>

\* ------------------------------------------------- main: the mapping
\* A record of the stream that the reader or from_value cannot decode.
RecordUnreadable ==
    [title |-> <<"Err(decode)">>, pageid |-> 0, qid |-> <<>>]

\* HashMap::insert: the value of k becomes v.
insert(m, k, v) ==
    [t \in DOMAIN m \cup {k} |-> IF t = k THEN v ELSE m[t]]

\* insert in the place of try_insert: the last record of a title wins.
try_insert_overwrites(m, k, v) ==
    insert(m, k, v)

\* HashMap::try_insert(..).ok(): k gets v only when k has no entry yet.
try_insert(m, k, v) ==
    IF k \in DOMAIN m THEN m ELSE insert(m, k, v)

\* The corrections, in the order main inserts them.
Corrections ==
    << [title |-> Title0, pageid |-> 17416221, qid |-> <<258>>],
       [title |-> Title1, pageid |-> 52389, qid |-> <<105387>>],
       [title |-> Title2, pageid |-> 91342, qid |-> <<49222>>],
       [title |-> Title3, pageid |-> 26213969, qid |-> <<444015>>],
       [title |-> Title4, pageid |-> 28381, qid |-> <<79015>>],
       [title |-> Title5, pageid |-> 2354465, qid |-> <<6233>>],
       [title |-> Title6, pageid |-> 896434, qid |-> <<3520028>>],
       [title |-> Title7, pageid |-> 229059, qid |-> <<281917>>],
       [title |-> Title8, pageid |-> 5834903, qid |-> <<986529>>] >>

RECURSIVE insert_all(_, _)
insert_all(m, recs) ==
    IF recs = <<>> THEN m
    ELSE insert_all(insert(m, recs[1].title, <<recs[1].pageid, recs[1].qid>>),
                    Tail(recs))

\* The loop body without its titles.contains test.
consume_record_unfiltered(m, requested, record) ==
    try_insert(m, record.title, <<record.pageid, record.qid>>)

\* What the loop over the stream does with one record.
consume_record(m, requested, record) ==
    IF record.title \in requested
    THEN try_insert(m, record.title, <<record.pageid, record.qid>>)
    ELSE m

\* let mut mapping = HashMap::new(), then the nine corrections.
InsertCorrections ==
    /\ pc = "corrections"
    /\ mapping' = insert_all(<<>>, Corrections)
    /\ pc' = "open_wiki2qid"
    /\ UNCHANGED <<input_conll, pos, train, validation, test, document_id,
                   document_split, titles, input_wiki2qid, rpos, train_out,
                   validation_out, test_out, writing, files, panic>>

\* File::open(..).unwrap() and Reader::new(..).unwrap().
OpenWiki2qid ==
    /\ pc = "open_wiki2qid"
    /\ \E outcome \in {"Ok", "File::open(input_wiki2qid)", "Reader::new(reader)"} :
           IF outcome = "Ok"
           THEN pc' = "stream" /\ UNCHANGED panic
           ELSE pc' = "aborted" /\ panic' = outcome
    /\ UNCHANGED <<input_conll, pos, train, validation, test, document_id,
                   document_split, titles, input_wiki2qid, rpos, mapping,
                   train_out, validation_out, test_out, writing, files>>

\* One iteration of the loop over the mapping records; both unwraps
\* panic on a record that cannot be decoded.
ReadRecord ==
    /\ pc = "stream"
    /\ rpos < Len(input_wiki2qid)
    /\ IF input_wiki2qid[rpos + 1] = RecordUnreadable
       THEN /\ pc' = "aborted"
            /\ panic' = "from_value::<MappingRecord>()"
            /\ UNCHANGED <<rpos, mapping>>
       ELSE /\ rpos' = rpos + 1
            /\ mapping' = consume_record(mapping, titles, input_wiki2qid[rpos + 1])
            /\ UNCHANGED <<pc, panic>>
    /\ UNCHANGED <<input_conll, pos, train, validation, test, document_id,
                   document_split, titles, input_wiki2qid, train_out,
                   validation_out, test_out, writing, files>>

\* The stream is exhausted.
StreamEnd ==
    /\ pc = "stream"
    /\ rpos = Len(input_wiki2qid)
    /\ pc' = "generate_train"
    /\ UNCHANGED <<input_conll, pos, train, validation, test, document_id,
                   document_split, titles, input_wiki2qid, rpos, mapping,
                   train_out, validation_out, test_out, writing, files, panic>>

\* ------------------------------------------------------ generate_dataset
\* itertools group_by(|x| x.document_id): maximal runs of consecutive
\* tokens with the same document id, in order.
RECURSIVE group_by_document(_)
group_by_document(tokens) ==
    IF tokens = <<>> THEN <<>>
    ELSE LET k == tokens[1].document_id
             n == CHOOSE n \in 1..Len(tokens) :
                      /\ \A i \in 1..n : tokens[i].document_id = k
                      /\ n = Len(tokens) \/ tokens[n + 1].document_id # k
         IN  <<[key |-> k, group |-> SubSeq(tokens, 1, n)]>>
             \o group_by_document(SubSeq(tokens, n + 1, Len(tokens)))

\* group_by(|x| x.1): maximal runs of consecutive tokens with the same entity.
RECURSIVE group_by_entity(_)
group_by_entity(tokens) ==
    IF tokens = <<>> THEN <<>>
    ELSE LET k == tokens[1].entity
             n == CHOOSE n \in 1..Len(tokens) :
                      /\ \A i \in 1..n : tokens[i].entity = k
                      /\ n = Len(tokens) \/ tokens[n + 1].entity # k
         IN  <<[key |-> k, group |-> SubSeq(tokens, 1, n)]>>
             \o group_by_entity(SubSeq(tokens, n + 1, Len(tokens)))

\* The separator the next run is preceded by.
separator(text) ==
    IF text = <<>> THEN <<>> ELSE <<SPACE>>

\* start without the separating space.
span_start_no_separator(text) ==
    Len(text)

\* start counted from the beginning of the run, not of the document.
span_start_in_run(text) ==
    0

\* start and end of the run joined into tokens, in characters.
span_start(text) ==
    Len(text) + Len(separator(text))

span_end(text, tokens) ==
    Len(text) + Len(separator(text)) + Len(tokens)

\* A title without an entry yields no Entity instead of a panic.
mention_of_skips_unresolved(entity, start, end, m) ==
    IF entity.kind = "OutOfDistribution"
    THEN [panic |-> FALSE,
          mention |-> <<[start |-> start, end |-> end, pageid |-> <<>>, qid |-> <<>>]>>]
    ELSE IF entity.kind = "InDistribution" /\ entity.title \in DOMAIN m
    THEN [panic |-> FALSE,
          mention |-> <<[start |-> start, end |-> end,
                         pageid |-> <<m[entity.title][1]>>,
                         qid |-> m[entity.title][2]]>>]
    ELSE [panic |-> FALSE, mention |-> <<>>]

\* The Entity of a run: Option<Entity>, or the panic of the unwrap on a
\* title the mapping does not hold.
mention_of(entity, start, end, m) ==
    IF entity.kind = "OutOfDistribution"
    THEN [panic |-> FALSE,
          mention |-> <<[start |-> start, end |-> end, pageid |-> <<>>, qid |-> <<>>]>>]
    ELSE IF entity.kind = "InDistribution"
    THEN IF entity.title \in DOMAIN m
         THEN [panic |-> FALSE,
               mention |-> <<[start |-> start, end |-> end,
                              pageid |-> <<m[entity.title][1]>>,
                              qid |-> m[entity.title][2]]>>]
         ELSE [panic |-> TRUE, mention |-> <<>>]
    ELSE [panic |-> FALSE, mention |-> <<>>]

\* The inner loop: the runs of one document, folded into text and entities.
RECURSIVE assemble(_, _, _, _)
assemble(groups, text, entities, m) ==
    IF groups = <<>>
    THEN [panic |-> FALSE, text |-> text, entities |-> entities]
    ELSE LET run == groups[1].group
             tokens == join([i \in 1..Len(run) |-> run[i].token], <<SPACE>>)
             start == span_start(text)
             end == span_end(text, tokens)
             res == mention_of(groups[1].key, start, end, m)
         IN  IF res.panic
             THEN [panic |-> TRUE, text |-> text, entities |-> entities]
             ELSE assemble(Tail(groups), text \o separator(text) \o tokens,
                           entities \o res.mention, m)

\* The outer loop: one DataPoint (without its uuid) per document run.
RECURSIVE assemble_all(_, _)
assemble_all(docs, m) ==
    IF docs = <<>>
    THEN [panic |-> FALSE, examples |-> <<>>]
    ELSE LET doc == assemble(group_by_entity(docs[1].group), <<>>, <<>>, m)
             rest == assemble_all(Tail(docs), m)
         IN  IF doc.panic \/ rest.panic
             THEN [panic |-> TRUE, examples |-> <<>>]
             ELSE [panic |-> FALSE,
                   examples |-> <<[document_id |-> docs[1].key,
                                   text |-> doc.text,
                                   entities |-> doc.entities]>> \o rest.examples]

generate_dataset(tokens, m) ==
    assemble_all(group_by_document(tokens), m)

\* Uuid::new_v4(): random.  A uuid is held as a number; as many values as
\* the run emits records stand for every pattern of equal and unequal draws.
Uuids ==
    1..(Len(group_by_document(train)) + Len(group_by_document(validation))
        + Len(group_by_document(test)))

with_uuids(examples, ids) ==
    [i \in 1..Len(examples) |->
        [uuid |-> ids[i],
         document_id |-> examples[i].document_id,
         text |-> examples[i].text,
         entities |-> examples[i].entities]]

\* The three calls of generate_dataset, in main's order.
GenerateTrain ==
    /\ pc = "generate_train"
    /\ LET res == generate_dataset(train, mapping)
       IN  IF res.panic
           THEN /\ pc' = "aborted"
                /\ panic' = "mapping.get(&title)"
                /\ UNCHANGED train_out
           ELSE /\ UNCHANGED panic
                /\ pc' = "generate_validation"
                /\ \E ids \in [1..Len(res.examples) -> Uuids] :
                       train_out' = with_uuids(res.examples, ids)
    /\ UNCHANGED <<input_conll, pos, train, validation, test, document_id,
                   document_split, titles, input_wiki2qid, rpos, mapping,
                   validation_out, test_out, writing, files>>

GenerateValidation ==
    /\ pc = "generate_validation"
    /\ LET res == generate_dataset(validation, mapping)
       IN  IF res.panic
           THEN /\ pc' = "aborted"
                /\ panic' = "mapping.get(&title)"
                /\ UNCHANGED validation_out
           ELSE /\ UNCHANGED panic
                /\ pc' = "generate_test"
                /\ \E ids \in [1..Len(res.examples) -> Uuids] :
                       validation_out' = with_uuids(res.examples, ids)
    /\ UNCHANGED <<input_conll, pos, train, validation, test, document_id,
                   document_split, titles, input_wiki2qid, rpos, mapping,
                   train_out, test_out, writing, files>>

GenerateTest ==
    /\ pc = "generate_test"
    /\ LET res == generate_dataset(test, mapping)
       IN  IF res.panic
           THEN /\ pc' = "aborted"
                /\ panic' = "mapping.get(&title)"
                /\ UNCHANGED test_out
           ELSE /\ UNCHANGED panic
                /\ pc' = "write_create"
                /\ \E ids \in [1..Len(res.examples) -> Uuids] :
                       test_out' = with_uuids(res.examples, ids)
    /\ UNCHANGED <<input_conll, pos, train, validation, test, document_id,
                   document_split, titles, input_wiki2qid, rpos, mapping,
                   train_out, validation_out, writing, files>>

\* --------------------------------------------------------- write_dataset
\* The paths of the three write_dataset calls, in main's order.
Paths ==
    <<"train.parquet", "validation.parquet", "test.parquet">>

\* File::create(path).unwrap(): the file exists, with nothing in it yet.
WriteCreate ==
    /\ pc = "write_create"
    /\ \E ok \in BOOLEAN :
           IF ok
           THEN /\ files' = [files EXCEPT ![Paths[writing]] = "incomplete"]
                /\ pc' = "write_row_group"
                /\ UNCHANGED panic
           ELSE /\ pc' = "aborted"
                /\ panic' = "File::create(path)"
                /\ UNCHANGED files
    /\ UNCHANGED <<input_conll, pos, train, validation, test, document_id,
                   document_split, titles, input_wiki2qid, rpos, mapping,
                   train_out, validation_out, test_out, writing>>

\* writer.write(group.unwrap()).unwrap(), for the one row group of the chunk.
WriteRowGroup ==
    /\ pc = "write_row_group"
    /\ \E ok \in BOOLEAN :
           IF ok
           THEN pc' = "write_end" /\ UNCHANGED panic
           ELSE pc' = "aborted" /\ panic' = "writer.write(group)"
    /\ UNCHANGED <<input_conll, pos, train, validation, test, document_id,
                   document_split, titles, input_wiki2qid, rpos, mapping,
                   train_out, validation_out, test_out, writing, files>>

\* writer.end(None).unwrap(): the footer is written and the file complete;
\* main goes on to the next write_dataset call, or returns.
WriteEnd ==
    /\ pc = "write_end"
    /\ \E ok \in BOOLEAN :
           IF ok
           THEN /\ files' = [files EXCEPT ![Paths[writing]] = "committed"]
                /\ IF writing < Len(Paths)
                   THEN pc' = "write_create" /\ writing' = writing + 1
                   ELSE pc' = "done" /\ UNCHANGED writing
                /\ UNCHANGED panic
           ELSE /\ pc' = "aborted"
                /\ panic' = "writer.end(None)"
                /\ UNCHANGED <<files, writing>>
    /\ UNCHANGED <<input_conll, pos, train, validation, test, document_id,
                   document_split, titles, input_wiki2qid, rpos, mapping,
                   train_out, validation_out, test_out>>

\* ------------------------------------------------------------ the inputs
\* Mapping records of the stream.
Record(title, pageid, qid) ==
    [title |-> title, pageid |-> pageid, qid |-> qid]

TitleT ==
    <<"T">>
TitleE ==
    <<"e">>
TitleTitle ==
    <<"T", "i", "t", "l", "e">>
TitleZ ==
    <<"Z">>

MainLines ==
    {LineAccent, LineEmptyToken, LineB, LineWord, LineDoc1, LineDoc2a, LineDoc3b,
     LineUnreadable}
MainRecords ==
    {Record(TitleT, 11, <<21>>)}

ParseLines ==
    {LineBlank, LineA, LineB, LineWord, LineDoc1, LineDoc2a, LineDoc3b,
     LineDocSpaced, LineDocEscaped, LineDocInner, LineDocOpen,
     LineDocTabbed, LineDocOverflow, LineDocMax, LineDocArabic,
     LineDocKawi, LineUnreadable}

MappingLines ==
    {LineB, LineSuperman, LineWord}
MappingRecords ==
    {Record(TitleT, 11, <<21>>), Record(TitleT, 12, <<>>),
     Record(Title4, 13, <<23>>), Record(TitleZ, 14, <<24>>),
     RecordUnreadable}

ScenarioLines ==
    <<LineA, LineScenarioB, LineBlank, LineDocSpaced, LineC>>
ScenarioRecords ==
    {Record(TitleTitle, 15, <<25>>), Record(TitleE, 16, <<26>>)}

\* The state main starts in, for a corpus and a mapping stream.
InitWith(corpora, streams) ==
    /\ pc = "open_conll"
    /\ input_conll \in corpora
    /\ pos = 0
    /\ train = <<>>
    /\ validation = <<>>
    /\ test = <<>>
    /\ document_id = <<"0">>
    /\ document_split = "Train"
    /\ titles = {}
    /\ input_wiki2qid \in streams
    /\ rpos = 0
    /\ mapping = <<>>
    /\ train_out = <<>>
    /\ validation_out = <<>>
    /\ test_out = <<>>
    /\ writing = 1
    /\ files = [p \in {Paths[i] : i \in 1..Len(Paths)} |-> "absent"]
    /\ panic = ""

\* The whole run, over short corpora and streams.
Init ==
    InitWith(BoundedSeq(MainLines, MaxLines), BoundedSeq(MainRecords, MaxRecords))

Next ==
    \/ OpenConll
    \/ ParseLine
    \/ ParseReturn
    \/ InsertCorrections
    \/ OpenWiki2qid
    \/ ReadRecord
    \/ StreamEnd
    \/ GenerateTrain
    \/ GenerateValidation
    \/ GenerateTest
    \/ WriteCreate
    \/ WriteRowGroup
    \/ WriteEnd

Spec ==
    Init /\ [][Next]_vars

\* parse_conll alone, over every kind of line.
InitParse ==
    InitWith(BoundedSeq(ParseLines, MaxLines), {<<>>})

NextParse ==
    \/ OpenConll
    \/ ParseLine
    \/ ParseReturn

SpecParse ==
    InitParse /\ [][NextParse]_vars

\* The run up to the end of the mapping stream.
InitMapping ==
    InitWith(BoundedSeq(MappingLines, MaxLines),
             BoundedSeq(MappingRecords, MaxRecords))

NextMapping ==
    \/ OpenConll
    \/ ParseLine
    \/ ParseReturn
    \/ InsertCorrections
    \/ OpenWiki2qid
    \/ ReadRecord
    \/ StreamEnd

SpecMapping ==
    InitMapping /\ [][NextMapping]_vars

\* The whole run on the corpus of the scenario.
InitScenario ==
    InitWith({ScenarioLines}, BoundedSeq(ScenarioRecords, MaxRecords))

SpecScenario ==
    InitScenario /\ [][Next]_vars


\* ------------------------------------------------ runs, stated directly
\* The definitions below restate, by positions, what the properties speak
\* of: the maximal runs of equal keys, and the single-space join.

\* Positions where a maximal run of equal keys begins.
RunStarts(keys) ==
    {i \in 1..Len(keys) : i = 1 \/ keys[i] # keys[i - 1]}

\* The last position of the maximal run that begins at i.
RunEnd(keys, i) ==
    CHOOSE j \in i..Len(keys) :
        /\ \A k \in i..j : keys[k] = keys[i]
        /\ j = Len(keys) \/ keys[j + 1] # keys[i]

\* The n-th smallest element of a set of positions.
NthOf(S, n) ==
    CHOOSE i \in S : Cardinality({j \in S : j <= i}) = n

DocumentKeys(tokens) ==
    [i \in 1..Len(tokens) |-> tokens[i].document_id]

EntityKeys(tokens) ==
    [i \in 1..Len(tokens) |-> tokens[i].entity]

NumDocumentRuns(tokens) ==
    Cardinality(RunStarts(DocumentKeys(tokens)))

\* The tokens of the n-th document run of a split.
DocumentRun(tokens, n) ==
    LET s == NthOf(RunStarts(DocumentKeys(tokens)), n)
    IN  SubSeq(tokens, s, RunEnd(DocumentKeys(tokens), s))

\* Starts of the same-tag runs of a document that carry a mention.
MentionStarts(doc) ==
    {i \in RunStarts(EntityKeys(doc)) : doc[i].entity.kind # "None"}

\* The tokens of the n-th mention-carrying run of a document.
MentionRun(doc, n) ==
    LET s == NthOf(MentionStarts(doc), n)
    IN  SubSeq(doc, s, RunEnd(EntityKeys(doc), s))

TokenTexts(tokens) ==
    [i \in 1..Len(tokens) |-> tokens[i].token]

\* The texts with one space between neighbours.
RECURSIVE SpaceJoined(_)
SpaceJoined(texts) ==
    IF Len(texts) = 0 THEN <<>>
    ELSE IF Len(texts) = 1 THEN texts[1]
    ELSE SpaceJoined(SubSeq(texts, 1, Len(texts) - 1)) \o <<" ">> \o texts[Len(texts)]

\* Each split's tokens with the records generate_dataset emitted for them.
Emitted ==
    {<<train, train_out>>, <<validation, validation_out>>, <<test, test_out>>}

\* Every emitted record and mention has the run it was built from.
RunsExist ==
    \A s \in Emitted :
        /\ Len(s[2]) <= NumDocumentRuns(s[1])
        /\ \A k \in 1..Len(s[2]) :
               Len(s[2][k].entities) = Cardinality(MentionStarts(DocumentRun(s[1], k)))

AfterGeneration ==
    {"write_create", "write_row_group", "write_end", "done"}

AfterStream ==
    {"generate_train", "generate_validation", "generate_test"} \cup AfterGeneration

\* ------------------------------------------------------------------ C1
\* C1: every Mention of every emitted DatasetRecord satisfies
\* 0 <= start < end <= character_length(text), empty-text tokens included.
C1_OffsetValidity ==
    \A s \in Emitted : \A k \in 1..Len(s[2]) : \A n \in 1..Len(s[2][k].entities) :
        LET e == s[2][k].entities[n]
        IN  0 <= e.start /\ e.start < e.end /\ e.end <= Len(s[2][k].text)

\* ------------------------------------------------------------------ C2
\* C2: for every emitted Mention, text[start:end] of its record equals the
\* single-space join of the token texts of the maximal same-tag run, within
\* one document, that the mention was built from.
C2_MentionText ==
    /\ RunsExist
    /\ \A s \in Emitted : \A k \in 1..Len(s[2]) : \A n \in 1..Len(s[2][k].entities) :
           LET e == s[2][k].entities[n]
               text == s[2][k].text
               run == MentionRun(DocumentRun(s[1], k), n)
           IN  /\ 0 <= e.start /\ e.start <= e.end /\ e.end <= Len(text)
               /\ SubSeq(text, e.start + 1, e.end) = SpaceJoined(TokenTexts(run))

\* A mention built from a run of two tokens that does not begin its document.
C2_Witness ==
    \E s \in Emitted : \E k \in 1..Len(s[2]) : \E n \in 1..Len(s[2][k].entities) :
        /\ RunsExist
        /\ Len(MentionRun(DocumentRun(s[1], k), n)) >= 2
        /\ s[2][k].entities[n].start > 0
        /\ s[2][k].entities[n].end = s[2][k].entities[n].start + 3

\* ------------------------------------------------------------------ C3
\* C3: within every emitted DatasetRecord the mentions are sorted by start
\* ascending and do not overlap: mentions[i].end <= mentions[i+1].start.
C3_SortedNonOverlapping ==
    \A s \in Emitted : \A k \in 1..Len(s[2]) :
        LET es == s[2][k].entities
        IN  \A i \in 1..(Len(es) - 1) :
                es[i].start <= es[i + 1].start /\ es[i].end <= es[i + 1].start

\* A record with three mentions, the first of them of width zero.
C3_Witness ==
    \E s \in Emitted : \E k \in 1..Len(s[2]) :
        /\ Len(s[2][k].entities) = 3
        /\ s[2][k].entities[1].end = s[2][k].entities[1].start
        /\ s[2][k].entities[3].start > s[2][k].entities[2].end

\* ------------------------------------------------------------------ C4
\* The boundary lines among the first n lines.
BoundaryLines(n) ==
    {k \in 1..n : is_boundary(input_conll[k])}

\* The boundary line in B that governs line k: the last one before it
\* (0: none).
Governing(B, k) ==
    IF \E j \in B : j < k
    THEN CHOOSE j \in B : j < k /\ \A i \in B : i < k => i <= j
    ELSE 0

\* The split the property assigns to a line governed by line g.
GoverningSplit(g) ==
    IF g = 0 THEN "Train"
    ELSE LET marker == regex_captures(input_conll[g]).split
         IN  CASE marker = <<>> -> "Train"
               [] marker = <<"t", "e", "s", "t", "a">> -> "Validation"
               [] marker = <<"t", "e", "s", "t", "b">> -> "Test"

\* The document id the property assigns to a line governed by line g.
GoverningDocument(g) ==
    IF g = 0 THEN <<"0">>
    ELSE parse_u32(regex_captures(input_conll[g]).id).value

\* The tokens the property expects in split s, for the token-producing
\* lines T and the governing line gov[k] of each.
ExpectedTokens(T, gov, s) ==
    LET Ts == {k \in T : GoverningSplit(gov[k]) = s}
    IN  [i \in 1..Cardinality(Ts) |->
            LET k == NthOf(Ts, i)
            IN  token_record(input_conll[k], GoverningDocument(gov[k]))]

\* C4: after parse_conll has processed any lines, every token-producing line
\* has contributed one token to exactly one split, and the split and the
\* document id are those of the most recent preceding boundary line (no
\* marker: train, testa: validation, testb: test); before any boundary
\* line the split is train and the document id 0.
C4_SplitPartition ==
    LET B == BoundaryLines(pos)
        T == {k \in 1..pos : input_conll[k] # <<>> /\ k \notin B}
        gov == [k \in 1..pos |-> Governing(B, k)]
    IN  /\ train = ExpectedTokens(T, gov, "Train")
        /\ validation = ExpectedTokens(T, gov, "Validation")
        /\ test = ExpectedTokens(T, gov, "Test")
        /\ Len(train) + Len(validation) + Len(test) = Cardinality(T)

\* parse_conll returned with tokens before any boundary, in train with id
\* 0, and tokens after a testa or testb boundary.
C4_Witness ==
    /\ pc = "corrections"
    /\ Len(train) = 1 /\ train[1].document_id = <<"0">>
    /\ Len(validation) + Len(test) = 1
    /\ is_boundary(input_conll[2])

\* ------------------------------------------------------------------ C5
\* The records of a split without their uuids.
Content(out) ==
    [i \in 1..Len(out) |->
        [document_id |-> out[i].document_id, text |-> out[i].text,
         entities |-> out[i].entities]]

Span(start, end, pageid, qid) ==
    [start |-> start, end |-> end, pageid |-> pageid, qid |-> qid]

\* C5 as stated: the scenario yields one train document (id 0, text "A B",
\* A out of mapping at [0,1), B at [2,3) resolved through the title
\* "Title"), one validation document (text "C", no mentions), no test one.
C5_ScenarioAsStated ==
    pc = "done" =>
        /\ TitleTitle \in DOMAIN mapping
        /\ Content(train_out) =
               << [document_id |-> <<"0">>, text |-> <<"A", " ", "B">>,
                   entities |-> << Span(0, 1, <<>>, <<>>),
                                   Span(2, 3, <<mapping[TitleTitle][1]>>,
                                        mapping[TitleTitle][2]) >>] >>
        /\ Len(validation_out) = 1
        /\ validation_out[1].text = <<"C">>
        /\ validation_out[1].entities = <<>>
        /\ test_out = <<>>

\* C5 amended: B's title is "e" (what is left of field 4 after 29
\* characters); "-DOCSTART- (2 testa)" carries no marker, so C stays in
\* train as document 2, and with its 4 fields is an out-of-mapping mention;
\* validation and test are empty; without an entry for "e" nothing is written.
C5_ScenarioAmended ==
    /\ pc \in {"corrections", "open_wiki2qid", "stream"} \cup AfterStream =>
           /\ titles = {TitleE}
           /\ Len(train) = 3 /\ validation = <<>> /\ test = <<>>
    /\ pc \in AfterGeneration =>
           /\ TitleE \in DOMAIN mapping
           /\ Content(train_out) =
                  << [document_id |-> <<"0">>, text |-> <<"A", " ", "B">>,
                      entities |-> << Span(0, 1, <<>>, <<>>),
                                      Span(2, 3, <<mapping[TitleE][1]>>,
                                           mapping[TitleE][2]) >>],
                     [document_id |-> <<"2">>, text |-> <<"C">>,
                      entities |-> << Span(0, 1, <<>>, <<>>) >>] >>
           /\ validation_out = <<>>
           /\ test_out = <<>>
    /\ TitleE \notin DOMAIN mapping => \A p \in DOMAIN files : files[p] = "absent"

\* The scenario ran to its end, the stream naming both "Title" and "e".
C5_Witness ==
    /\ pc = "done"
    /\ \E i \in 1..Len(input_wiki2qid) : input_wiki2qid[i].title = TitleTitle
    /\ mapping[TitleE] = <<16, <<26>>>>

\* ------------------------------------------------------------------ C6
OverrideTitles ==
    {Corrections[i].title : i \in 1..Len(Corrections)}

\* The records main has consumed so far.
Consumed ==
    SubSeq(input_wiki2qid, 1, rpos)

\* The position of the first consumed record of a title.
FirstOccurrence(t) ==
    CHOOSE i \in 1..rpos :
        /\ Consumed[i].title = t
        /\ \A j \in 1..(i - 1) : Consumed[j].title # t

\* C6: after any stream, every override title maps to the override's pair
\* whatever the stream carries for it, and every other requested title in
\* the stream maps to the pair of its first occurrence.
C6_FirstWriteWins ==
    pc \in {"stream", "generate_train"} =>
        /\ \A i \in 1..Len(Corrections) :
               /\ Corrections[i].title \in DOMAIN mapping
               /\ mapping[Corrections[i].title] =
                      <<Corrections[i].pageid, Corrections[i].qid>>
        /\ \A t \in titles \ OverrideTitles :
               (\E i \in 1..rpos : Consumed[i].title = t) =>
                   /\ t \in DOMAIN mapping
                   /\ mapping[t] = <<Consumed[FirstOccurrence(t)].pageid,
                                     Consumed[FirstOccurrence(t)].qid>>

\* The stream gave a requested override title another pair, and a requested
\* title two different pairs.
C6_Witness ==
    /\ pc = "generate_train"
    /\ Title4 \in titles
    /\ TitleT \in titles
    /\ \E i \in 1..rpos : Consumed[i].title = Title4 /\ Consumed[i].pageid # 28381
    /\ \E i, j \in 1..rpos :
           /\ i < j
           /\ Consumed[i].title = TitleT /\ Consumed[j].title = TitleT
           /\ Consumed[i].pageid # Consumed[j].pageid

\* ------------------------------------------------------------------ C7
\* C7: when a collected candidate title is in neither the overrides nor
\* the stream, the run aborts, and no output file has been created, in
\* whichever split the unresolved mention is.
C7_UnresolvedAborts ==
    (pc \in AfterStream \cup {"aborted"} /\ \E t \in titles : t \notin DOMAIN mapping) =>
        /\ pc \notin AfterGeneration
        /\ \A p \in DOMAIN files : files[p] = "absent"

\* The lookup of a title of the test split panicked after the stream ended.
C7_Witness ==
    /\ pc = "aborted"
    /\ panic = "mapping.get(&title)"
    /\ rpos = Len(input_wiki2qid)
    /\ train # <<>>
    /\ \E i \in 1..Len(test) :
           /\ test[i].entity.kind = "InDistribution"
           /\ test[i].entity.title \notin DOMAIN mapping
    /\ \A p \in DOMAIN files : files[p] = "absent"

\* ------------------------------------------------------------------ C8
\* C8: write_dataset is atomic: when it has failed or returned, each output
\* path holds a fully committed file or no file at all.
C8_WriteAtomic ==
    pc \in {"aborted", "done"} =>
        \A p \in DOMAIN files : files[p] \in {"absent", "committed"}

\* ------------------------------------------------------------------ C9
\* C9: the text of every emitted DatasetRecord is the single-space join of
\* the texts of all tokens of its document run, in order, whatever their
\* tags and empty texts included.
C9_TextIsJoin ==
    /\ RunsExist
    /\ \A s \in Emitted : \A k \in 1..Len(s[2]) :
           s[2][k].text = SpaceJoined(TokenTexts(DocumentRun(s[1], k)))

\* ----------------------------------------------------------------- C10
\* C10 as stated: every key of the table is a member of the title set
\* parse_conll returned.
C10_KeysWithinTitles ==
    pc \in {"stream", "generate_train"} => DOMAIN mapping \subseteq titles

\* C10 amended: every key of the table is a member of the title set or one
\* of the nine titles of the corrections.
C10_KeysWithinTitlesOrCorrections ==
    DOMAIN mapping \subseteq titles \cup OverrideTitles

\* The stream held a record of a title that was not requested, and one of a
\* requested title, which is in the table.
C10_Witness ==
    /\ pc = "generate_train"
    /\ \E i \in 1..rpos : Consumed[i].title \notin titles \cup OverrideTitles
    /\ \E i \in 1..rpos :
           /\ Consumed[i].title \in titles \ OverrideTitles
           /\ Consumed[i].title \in DOMAIN mapping

====
